---- MODULE Spec2Model ----
(***************************************************************************)
(* Bus-pass issuance and ticket booking server (src/server.js).            *)
(*                                                                         *)
(* State: the two MongoDB collections `applications` and `tickets`, the    *)
(* connection state set by connectDB, the /apply requests suspended at     *)
(* their awaits, and the last HTTP response written.                       *)
(*                                                                         *)
(* Three specifications share the state and the actions:                   *)
(*   Spec       concurrent issuance (/apply) and the three lookups;        *)
(*   SpecPhone  issuance one request at a time, every combination of the   *)
(*              three phone fields, and the lookup by phone;               *)
(*   SpecBook   issuance one request at a time with one fixed form, and    *)
(*              /bookTicket over its five body fields.                     *)
(*                                                                         *)
(* Fields of the documents that no handler reads back (name, address,      *)
(* createdAt, bookedAt, the uploaded file paths, a ticket's own _id) are   *)
(* carried through by the code unchanged and are left out of the records.  *)
(***************************************************************************)
EXTENDS Integers, Sequences, FiniteSets, TLC

(***************************************************************************)
(* Bounds of the model.                                                    *)
(***************************************************************************)
\* applicant documents the store may hold
MaxApplicants == 2
\* ticket documents the store may hold
MaxTickets == 2
\* distinct values floor(Math.random() * 90000000) takes in the model
NumDraws == 2
\* /apply requests that may be suspended at an await at the same time
MaxReq == 2

(***************************************************************************)
(* JavaScript values.                                                      *)
(*   A form or JSON field that is a string or absent: [t, s].              *)
(***************************************************************************)
Undefined == [t |-> "undefined", s |-> ""]

Str(x) == [t |-> "string", s |-> x]

\* JavaScript truthiness of a string-or-undefined value: undefined and ""
\* are falsy, every other string is truthy (the operand test of || and !).
Truthy(v) == v.t = "string" /\ v.s # ""

\* a || b
Or(a, b) == IF Truthy(a) THEN a ELSE b

(***************************************************************************)
(* generateUniquePassId: Math.floor(10000000 + Math.random() * 90000000)   *)
(* formatted as `TSRTC-${randomNum}`.  k is floor(Math.random()*90000000). *)
(***************************************************************************)
generateUniquePassId(k) == [prefix |-> "TSRTC-", num |-> 10000000 + k]

PassIds == {generateUniquePassId(k) : k \in 0 .. (NumDraws - 1)}

\* QRCode.toDataURL(passId): the data URL is a function of the text alone.
toDataURL(passId) == [scheme |-> "data:image/png", text |-> passId]

(***************************************************************************)
(* The /apply document, lines 83-115.                                      *)
(***************************************************************************)
phoneNumberOf(body) == Or(Or(body.phone, body.whatsapp), body.number)

whatsappOf(body) == Or(body.whatsapp, phoneNumberOf(body))

\* variant: number is stored as submitted, without the fallback
numberAsSubmitted(body) == body.number

numberOf(body) == Or(body.number, phoneNumberOf(body))

applyDoc(id, passId, body) ==
    [_id      |-> id,
     passId   |-> passId,
     qrCode   |-> toDataURL(passId),
     phone    |-> phoneNumberOf(body),
     whatsapp |-> whatsappOf(body),
     number   |-> numberOf(body)]

\* insertOne: the document goes to the end of the collection.
insertOne(coll, doc) == Append(coll, doc)

(***************************************************************************)
(* ObjectId.  The n-th id the driver hands out is the integer n; its       *)
(* 24-digit hex form is what a client sends back.  new ObjectId(v) throws  *)
(* for anything that is not such a string: 0 stands for the throw.         *)
(***************************************************************************)
OidHex ==
    << "65f000000000000000000001", "65f000000000000000000002",
       "65f000000000000000000003", "65f000000000000000000004",
       "65f000000000000000000005" >>

toHexString(id) == Str(OidHex[id])

ObjectId(v) ==
    IF v.t = "string" /\ \E n \in DOMAIN OidHex : OidHex[n] = v.s
    THEN CHOOSE n \in DOMAIN OidHex : OidHex[n] = v.s
    ELSE 0

(***************************************************************************)
(* The amount field of a /bookTicket body: absent, a JSON number or a      *)
(* string (a sequence of characters).  Number(v) is a number or NaN.       *)
(***************************************************************************)
AUndefined == [t |-> "undefined", n |-> 0, c |-> <<>>]

ANum(x) == [t |-> "number", n |-> x, c |-> <<>>]

AStr(chars) == [t |-> "string", n |-> 0, c |-> chars]

NaN == [t |-> "NaN", n |-> 0]

Num(x) == [t |-> "number", n |-> x]

Digits == <<"0", "1", "2", "3", "4", "5", "6", "7", "8", "9">>

IsDigit(ch) == \E i \in DOMAIN Digits : Digits[i] = ch

DigitValue(ch) == (CHOOSE i \in DOMAIN Digits : Digits[i] = ch) - 1

RECURSIVE DecimalValue(_)
DecimalValue(chars) ==
    IF chars = <<>> THEN 0
    ELSE 10 * DecimalValue(SubSeq(chars, 1, Len(chars) - 1))
         + DigitValue(chars[Len(chars)])

\* StringToNumber: "" is 0, an optionally signed run of digits is its
\* value, any other text is NaN.
StringToNumber(chars) ==
    LET neg  == chars # <<>> /\ chars[1] = "-"
        body == IF neg THEN Tail(chars) ELSE chars
    IN IF chars = <<>> THEN Num(0)
       ELSE IF body # <<>> /\ \A i \in DOMAIN body : IsDigit(body[i])
            THEN Num(IF neg THEN 0 - DecimalValue(body) ELSE DecimalValue(body))
            ELSE NaN

Number(v) ==
    CASE v.t = "undefined" -> NaN
      [] v.t = "number"    -> Num(v.n)
      [] v.t = "string"    -> StringToNumber(v.c)

\* JSON.stringify writes NaN as null
toJSON(x) == IF x.t = "NaN" THEN [t |-> "null", n |-> 0] ELSE x

(***************************************************************************)
(* The /bookTicket document, lines 182-192.                                *)
(***************************************************************************)
\* variant: the destination test is left out of the check
missingFieldsNoDestination(body) ==
    \/ ~Truthy(body.applicantId)
    \/ ~Truthy(body.source)
    \/ ~Truthy(body.paymentType)

missingFields(body) ==
    \/ ~Truthy(body.applicantId)
    \/ ~Truthy(body.source)
    \/ ~Truthy(body.destination)
    \/ ~Truthy(body.paymentType)

\* variant: the amount is taken from the body whatever the payment type
fareAlwaysCharged(paymentType, amount) == Number(amount)

fare(paymentType, amount) ==
    IF paymentType = Str("PAID") THEN Number(amount) ELSE Num(0)

ticketDoc(body) ==
    [applicantId |-> ObjectId(body.applicantId),
     source      |-> body.source,
     destination |-> body.destination,
     paymentType |-> body.paymentType,
     amount      |-> fare(body.paymentType, body.amount)]

\* variant: a booking equal to a stored one is not stored again
insertTicketOnce(coll, doc) ==
    IF \E i \in 1 .. Len(coll) : coll[i] = doc THEN coll ELSE Append(coll, doc)

insertTicket(coll, doc) == Append(coll, doc)

(***************************************************************************)
(* findOne(filter): the first document, in insertion order, that matches;  *)
(* `matches` are the positions of the matching documents.  0 stands for    *)
(* null (positions start at 1).                                            *)
(***************************************************************************)
FirstIndex(matches) ==
    IF matches = {} THEN 0
    ELSE CHOOSE i \in matches : \A j \in matches : i <= j

\* { $or: [{ phone }, { whatsapp: phone }, { number: phone }] }
PhoneFilter(phone, d) == d.phone = phone \/ d.whatsapp = phone \/ d.number = phone

\* variant: the last matching document instead of the first
findLastByPhone(coll, phone) ==
    IF \E i \in 1 .. Len(coll) : PhoneFilter(phone, coll[i])
    THEN CHOOSE i \in 1 .. Len(coll) :
            /\ PhoneFilter(phone, coll[i])
            /\ \A j \in (i + 1) .. Len(coll) : ~PhoneFilter(phone, coll[j])
    ELSE 0

findByPhone(coll, phone) ==
    FirstIndex({i \in 1 .. Len(coll) : PhoneFilter(phone, coll[i])})

findByPassId(coll, passId) ==
    FirstIndex({i \in 1 .. Len(coll) : coll[i].passId = passId})

findById(coll, id) ==
    FirstIndex({i \in 1 .. Len(coll) : coll[i]._id = id})

(***************************************************************************)
(* State.                                                                  *)
(***************************************************************************)
VARIABLES
    db,            \* connectDB: "connecting", "connected" or "failed"
    applications,  \* the applications collection, in insertion order
    tickets,       \* the tickets collection, in insertion order
    reqs,          \* /apply requests: slot -> [pc, passId]
    issued,        \* the {id, passId} pairs /apply has answered with
    res            \* the last response written

vars == <<db, applications, tickets, reqs, issued, res>>

Slots == 1 .. MaxReq

Idle == [pc |-> "idle", passId |-> generateUniquePassId(0)]

NoRes == [op |-> "none"]

Init ==
    /\ db = "connecting"
    /\ applications = <<>>
    /\ tickets = <<>>
    /\ reqs = [s \in Slots |-> Idle]
    /\ issued = {}
    /\ res = NoRes

\* the store assigns the next ObjectId; no two inserts get the same one
nextId == Len(applications) + 1

(***************************************************************************)
(* connectDB, lines 41-52.                                                 *)
(***************************************************************************)
ConnectDB ==
    /\ db = "connecting"
    /\ db' = "connected"
    /\ UNCHANGED <<applications, tickets, reqs, issued, res>>

ConnectFail ==
    /\ db = "connecting"
    /\ db' = "failed"
    /\ UNCHANGED <<applications, tickets, reqs, issued, res>>

(***************************************************************************)
(* POST /apply, lines 72-130.                                              *)
(***************************************************************************)
\* lines 77-78: the collection handle is still undefined
ApplyNoDB ==
    /\ db # "connected"
    /\ res' = [op |-> "apply", status |-> 500, error |-> "DB not connected"]
    /\ UNCHANGED <<db, applications, tickets, reqs, issued>>

\* lines 80-81: the pass id is drawn, the handler suspends in toDataURL
ApplyStart(s, k) ==
    /\ db = "connected"
    /\ reqs[s].pc = "idle"
    /\ reqs' = [reqs EXCEPT ![s] = [pc |-> "qr", passId |-> generateUniquePassId(k)]]
    /\ UNCHANGED <<db, applications, tickets, issued, res>>

\* lines 83-125: toDataURL has resolved; the form is read (for the first
\* time), the document is built and inserted, and the response carries the
\* inserted id and the handler's own passId.  Between the insert and the
\* response the handler reads no shared state, so the two are one step.
ApplyInsert(s, body) ==
    /\ reqs[s].pc = "qr"
    /\ Len(applications) < MaxApplicants
    /\ LET passId == reqs[s].passId
           doc    == applyDoc(nextId, passId, body)
       IN /\ applications' = insertOne(applications, doc)
          /\ issued' = issued \cup {[id |-> doc._id, passId |-> passId]}
          /\ res' = [op |-> "apply", status |-> 200, success |-> TRUE,
                     id |-> doc._id, passId |-> passId, qrCode |-> doc.qrCode]
    /\ reqs' = [reqs EXCEPT ![s] = Idle]
    /\ UNCHANGED <<db, tickets>>

\* lines 126-128: toDataURL or insertOne rejects, nothing is stored
ApplyFail(s) ==
    /\ reqs[s].pc = "qr"
    /\ res' = [op |-> "apply", status |-> 500, success |-> FALSE]
    /\ reqs' = [reqs EXCEPT ![s] = Idle]
    /\ UNCHANGED <<db, applications, tickets, issued>>

(***************************************************************************)
(* GET /verify/:phone, lines 135-146.  The parameter is always a string.   *)
(***************************************************************************)
Verify(phone) ==
    /\ res' = IF db # "connected"
              THEN [op |-> "verify", status |-> 500, success |-> FALSE]
              ELSE LET i == findByPhone(applications, phone)
                   IN IF i # 0
                      THEN [op |-> "verify", status |-> 200, success |-> TRUE,
                            id |-> applications[i]._id]
                      ELSE [op |-> "verify", status |-> 200, success |-> FALSE]
    /\ UNCHANGED <<db, applications, tickets, reqs, issued>>

(***************************************************************************)
(* GET /applicant/:id, lines 151-160.  new ObjectId(param) throws on a     *)
(* malformed id.                                                           *)
(***************************************************************************)
Applicant(param) ==
    /\ res' = IF db # "connected" \/ ObjectId(param) = 0
              THEN [op |-> "applicant", status |-> 500, success |-> FALSE]
              ELSE LET i == findById(applications, ObjectId(param))
                   IN IF i # 0
                      THEN [op |-> "applicant", status |-> 200, success |-> TRUE,
                            applicant |-> applications[i]]
                      ELSE [op |-> "applicant", status |-> 200, success |-> FALSE]
    /\ UNCHANGED <<db, applications, tickets, reqs, issued>>

(***************************************************************************)
(* GET /getApplicant/:passId, lines 165-173.                               *)
(***************************************************************************)
GetApplicant(passId) ==
    /\ res' = IF db # "connected"
              THEN [op |-> "getApplicant", status |-> 500, success |-> FALSE]
              ELSE LET i == findByPassId(applications, passId)
                   IN IF i = 0
                      THEN [op |-> "getApplicant", status |-> 404, success |-> FALSE]
                      ELSE [op |-> "getApplicant", status |-> 200,
                            applicant |-> applications[i]]
    /\ UNCHANGED <<db, applications, tickets, reqs, issued>>

(***************************************************************************)
(* POST /bookTicket, lines 178-199.  Nothing looks the applicant up: the   *)
(* only failures are a missing field, new ObjectId throwing and the        *)
(* undefined collection handle.                                            *)
(***************************************************************************)
BookTicket(body) ==
    IF missingFields(body)
    THEN /\ res' = [op |-> "bookTicket", status |-> 200, success |-> FALSE,
                    msg |-> "Missing fields"]
         /\ UNCHANGED <<db, applications, tickets, reqs, issued>>
    ELSE IF ObjectId(body.applicantId) = 0 \/ db # "connected"
    THEN /\ res' = [op |-> "bookTicket", status |-> 500, success |-> FALSE]
         /\ UNCHANGED <<db, applications, tickets, reqs, issued>>
    ELSE /\ Len(tickets) < MaxTickets
         /\ LET doc == ticketDoc(body)
            IN /\ tickets' = insertTicket(tickets, doc)
               /\ res' = [op |-> "bookTicket", status |-> 200, success |-> TRUE,
                          ticket |-> [doc EXCEPT !.amount = toJSON(doc.amount)]]
         /\ UNCHANGED <<db, applications, reqs, issued>>

\* a well-formed id for every applicant the store may hold and one more,
\* and a string that is no ObjectId
RefInputs == {toHexString(n) : n \in 1 .. (MaxApplicants + 1)} \cup {Str("not-an-id")}

(***************************************************************************)
(* Inputs of the issuance specification.                                   *)
(***************************************************************************)
PhoneStrings == {"9000000001", "9000000002"}

PhoneInputs == {Undefined, Str("")} \cup {Str(p) : p \in PhoneStrings}

ApplyBodies == [phone : PhoneInputs, whatsapp : PhoneInputs, number : PhoneInputs]

Next ==
    \/ ConnectDB
    \/ ConnectFail
    \/ ApplyNoDB
    \/ \E s \in Slots, k \in 0 .. (NumDraws - 1) : ApplyStart(s, k)
    \/ \E s \in Slots, body \in ApplyBodies : ApplyInsert(s, body)
    \/ \E s \in Slots : ApplyFail(s)
    \/ \E p \in PhoneStrings : Verify(Str(p))
    \/ \E param \in RefInputs : Applicant(param)
    \/ \E passId \in PassIds : GetApplicant(passId)

Spec == Init /\ [][Next]_vars

NextPhone ==
    \/ ConnectDB
    \/ ConnectFail
    \/ ApplyNoDB
    \/ ApplyStart(1, 0)
    \/ \E body \in ApplyBodies : ApplyInsert(1, body)
    \/ ApplyFail(1)
    \/ \E p \in PhoneStrings : Verify(Str(p))

SpecPhone == Init /\ [][NextPhone]_vars

(***************************************************************************)
(* Inputs of the booking specification: the bodies that vary which of the  *)
(* four required fields is absent or empty, and the complete bodies that   *)
(* vary the reference, the payment type and the amount.                    *)
(***************************************************************************)
CounterForm == [phone |-> Str("9000000001"), whatsapp |-> Undefined, number |-> Undefined]

AmountInputs ==
    {AUndefined, ANum(0 - 5), AStr(<<"5", "0">>), AStr(<<"a", "b", "c">>), AStr(<<>>)}

\* the id the first applicant gets (no applicant has it until then), and
\* a string that is no ObjectId
BookRefInputs == {toHexString(1), Str("not-an-id")}

FieldBodies ==
    [applicantId : {Undefined, Str(""), toHexString(1)},
     source      : {Undefined, Str(""), Str("A")},
     destination : {Undefined, Str(""), Str("B")},
     paymentType : {Undefined, Str(""), Str("PAID")},
     amount      : {ANum(50)}]

FareBodies ==
    [applicantId : BookRefInputs,
     source      : {Str("A")},
     destination : {Str("B")},
     paymentType : {Str("PAID"), Str("FREE"), Str("paid")},
     amount      : AmountInputs]

BookBodies == FieldBodies \cup FareBodies

NextBook ==
    \/ ConnectDB
    \/ ConnectFail
    \/ ApplyNoDB
    \/ ApplyStart(1, 0)
    \/ ApplyInsert(1, CounterForm)
    \/ ApplyFail(1)
    \/ \E body \in BookBodies : BookTicket(body)

SpecBook == Init /\ [][NextBook]_vars

(***************************************************************************)
(* Properties.                                                             *)
(***************************************************************************)
Last(seq) == seq[Len(seq)]

Count(seq, x) == Cardinality({i \in 1 .. Len(seq) : seq[i] = x})

\* the stored applicant with the given id (ids are unique)
DocOf(id) == applications[findById(applications, id)]

\* a field the caller left absent or empty
AbsentOrEmpty(v) == v = Undefined \/ v = Str("")

\* the first non-empty of phone, whatsapp, number
FirstSupplied(body) ==
    IF ~AbsentOrEmpty(body.phone) THEN body.phone
    ELSE IF ~AbsentOrEmpty(body.whatsapp) THEN body.whatsapp
    ELSE body.number

AnySupplied(body) ==
    ~AbsentOrEmpty(body.phone) \/ ~AbsentOrEmpty(body.whatsapp) \/ ~AbsentOrEmpty(body.number)

\* C1: no two applicant records in the applicant store have the same passId.
PassIdsDistinct ==
    \A i, j \in 1 .. Len(applications) :
        i # j => applications[i].passId # applications[j].passId

\* C2: every ticket's applicantId is the _id of an applicant in the store,
\* so a booking whose reference matches no applicant adds no ticket.
TicketsReferenceApplicants ==
    \A i \in 1 .. Len(tickets) :
        \E j \in 1 .. Len(applications) : applications[j]._id = tickets[i].applicantId

\* C3: a booking whose paymentType is not exactly "PAID" stores and returns
\* the amount 0, whatever amount the body carries.
\* (A step that stored and returned 0 needs no look at the bodies; any
\* other step that changed the tickets must be no such booking.)
FreeFareIsZero ==
    [][tickets' # tickets
       => \/ /\ Last(tickets').amount = Num(0)
             /\ res'.op = "bookTicket"
             /\ res'.success
             /\ res'.ticket.amount = Num(0)
          \/ \A body \in BookBodies :
                body.paymentType # Str("PAID") => ~BookTicket(body)]_vars

FreeFareIsZeroWitness ==
    /\ \E i \in 1 .. Len(tickets) :
          tickets[i].paymentType = Str("FREE") /\ tickets[i].amount = Num(0)
    /\ \E i \in 1 .. Len(tickets) :
          tickets[i].paymentType = Str("paid") /\ tickets[i].amount = Num(0)
    /\ res.op = "bookTicket" /\ res.success /\ res.ticket.amount = Num(0)

\* a ticket booked against an applicant that is in the store
Resolves(ticket) ==
    \E j \in 1 .. Len(applications) : applications[j]._id = ticket.applicantId

\* C4: every stored ticket amount that is a number is >= 0 (a PAID booking
\* with a negative amount stores 0), also for a ticket of a stored applicant.
AmountNeverNegative ==
    \A i \in 1 .. Len(tickets) :
        (Resolves(tickets[i]) /\ tickets[i].amount.t = "number")
        => tickets[i].amount.n >= 0

\* C5: for every answered issuance, the lookup by its passId finds the
\* record whose _id is the id that issuance returned.
PassIdResolvesToIssuedRecord ==
    \A r \in issued :
        LET i == findByPassId(applications, r.passId)
        IN i # 0 /\ applications[i]._id = r.id

\* C6, as claimed: for every issued applicant with a phone value, the lookup
\* by that value finds that same applicant.
PhoneResolvesToSameApplicant ==
    \A r \in issued :
        Truthy(DocOf(r.id).phone)
        => LET i == findByPhone(applications, DocOf(r.id).phone)
           IN i # 0 /\ applications[i]._id = r.id

\* C6, amended: the lookup by an issued applicant's phone value succeeds
\* and returns the first stored applicant one of whose three phone fields
\* holds that value; that is the applicant itself when no earlier record
\* holds the value.  At issuance the value is the first non-empty input,
\* and a record issued with only phone set matches on whatsapp alone.
PhoneResolvesToFirstHolder ==
    /\ [](\A r \in issued :
            LET own == findById(applications, r.id)
                q   == applications[own].phone
                i   == findByPhone(applications, q)
            IN Truthy(q)
               => /\ i # 0
                  /\ i <= own
                  /\ PhoneFilter(q, applications[i])
                  /\ \A j \in 1 .. (i - 1) : ~PhoneFilter(q, applications[j])
                  /\ (\A j \in 1 .. (own - 1) : ~PhoneFilter(q, applications[j]))
                        => applications[i]._id = r.id)
    /\ [][\A s \in Slots, body \in ApplyBodies :
            (ApplyInsert(s, body) /\ AnySupplied(body))
            => LET q == FirstSupplied(body)
                   i == findByPhone(applications', q)
               IN /\ i # 0
                  /\ (\A j \in 1 .. Len(applications) : ~PhoneFilter(q, applications[j]))
                        => applications'[i]._id = res'.id
                  /\ (AbsentOrEmpty(body.whatsapp) /\ AbsentOrEmpty(body.number))
                        => Last(applications').whatsapp = q]_vars

PhoneResolvesWitness ==
    /\ Len(applications) = 2
    /\ applications[1].phone = Str("9000000001")
    /\ applications[2].phone = Str("9000000001")
    /\ res.op = "verify" /\ res.success /\ res.id = applications[1]._id

\* C7: a successful booking appends exactly one ticket, keeps the earlier
\* tickets and the applicants as they were, and is stored again when the
\* same booking was stored before.
\* (A step whose response is a booking success either did all of this or
\* is the step of no booking at all.)
BookingAppendsOne ==
    [][(res'.op = "bookTicket" /\ res'.success)
       => \/ /\ Len(tickets') = Len(tickets) + 1
             /\ SubSeq(tickets', 1, Len(tickets)) = tickets
             /\ Count(tickets', Last(tickets')) = Count(tickets, Last(tickets')) + 1
             /\ applications' = applications
          \/ \A body \in BookBodies : ~BookTicket(body)]_vars

BookingAppendsOneWitness ==
    /\ Len(tickets) = 2
    /\ tickets[1] = tickets[2]
    /\ Len(applications) > 0
    /\ res.op = "bookTicket" /\ res.success

\* C8: a booking with applicantId, source, destination or paymentType
\* absent or empty answers success = false, "Missing fields", and changes
\* neither store.
\* (A step that did all of this needs no look at the bodies; any other
\* step must be the booking of no such body.)
MissingFieldsRejected ==
    [][\/ /\ res' = [op |-> "bookTicket", status |-> 200, success |-> FALSE,
                     msg |-> "Missing fields"]
          /\ tickets' = tickets
          /\ applications' = applications
       \/ \A body \in BookBodies :
             (\/ AbsentOrEmpty(body.applicantId)
              \/ AbsentOrEmpty(body.source)
              \/ AbsentOrEmpty(body.destination)
              \/ AbsentOrEmpty(body.paymentType))
             => ~BookTicket(body)]_vars

MissingFieldsWitness ==
    /\ res.op = "bookTicket" /\ res.status = 200 /\ ~res.success
    /\ Len(tickets) > 0
    /\ Len(applications) > 0

\* C9: when at least one of phone, whatsapp, number is supplied non-empty,
\* the stored record has all three non-empty, phone is the first non-empty
\* input, and whatsapp and number are their own input when supplied and
\* the resolved phone otherwise.
PhoneFieldsReconciled ==
    [][\A s \in Slots, body \in ApplyBodies :
          (ApplyInsert(s, body) /\ AnySupplied(body))
          => LET d == Last(applications')
             IN /\ ~AbsentOrEmpty(d.phone)
                /\ ~AbsentOrEmpty(d.whatsapp)
                /\ ~AbsentOrEmpty(d.number)
                /\ d.phone = FirstSupplied(body)
                /\ d.whatsapp = IF AbsentOrEmpty(body.whatsapp) THEN d.phone
                                ELSE body.whatsapp
                /\ d.number = IF AbsentOrEmpty(body.number) THEN d.phone
                              ELSE body.number]_vars

PhoneFieldsReconciledWitness ==
    \E i \in 1 .. Len(applications) :
        /\ applications[i].phone = Str("9000000002")
        /\ applications[i].whatsapp = Str("9000000002")
        /\ applications[i].number = Str("9000000001")

\* C10: no stored ticket has an amount that is NaN: a PAID booking with a
\* non-numeric amount creates no ticket, also against a stored applicant.
NoNaNAmountStored ==
    \A i \in 1 .. Len(tickets) :
        Resolves(tickets[i]) => tickets[i].amount.t # "NaN"

====
